---- MODULE Spec2Model ----
(***************************************************************************)
(* Chimerox (src/chimerox.py): the frame-synthesis pipeline of the class   *)
(* Chimerox (construction, per-frame layers, distortion pass, generate).   *)
(*                                                                         *)
(* Floating-point quantities are carried in fixed point:                   *)
(*   lengths, positions, velocities, sizes   1/100 pixel ("cp")            *)
(*   phase, entropy, resonance               1/100                         *)
(*   angles                                  1/100 radian ("crad")         *)
(*   sines, cosines, hue/saturation/value    1/1000                        *)
(*   distortion strength, blend factor       1/100000                      *)
(* int() of the source truncates toward zero (Trunc), % is Python's        *)
(* floored modulo (the % of TLA+ for a positive divisor).                  *)
(***************************************************************************)
EXTENDS Integers, Sequences, FiniteSets, TLC

VARIABLES
    cfg,          \* the constructor arguments (iota, omicron, phase, ...)
    pc,           \* position of the run: "new", "constructed", "clear", ...
    run,          \* which of the two independent runs is executing
    rng,          \* state of the module-global generator of `random`
    obj,          \* fields computed once by __init__ (counts, rates, hues)
    particles,    \* self.particles
    bokeh,        \* self.bokeh_particles
    vortex,       \* self.vortex_centers
    centers,      \* self.distortion_centers
    frame,        \* loop variable of generate
    pidx,         \* index of the particle the loop of _draw_frame is at
    canvas,       \* the raster buffer of the current frame
    canvasObj,    \* which array object `canvas` names: "canvas" or "result"
    ops,          \* layer operations performed in the current frame
    drawCalls,    \* cv2 drawing calls (circle, line) in the current frame
    draws,        \* values taken from the generator since construction began
    before,       \* the particle as it was when _update_particle was entered
    composite,    \* the buffer as it was when the distortion pass was entered
    sink,         \* the video sink: calls received, opened flag, failures
    emitted,      \* per written frame: buffer, generator and entity state
    firstRun,     \* `emitted` of the first run, kept for comparison
    trail         \* trailing discs drawn for the particle drawn last

vars == <<cfg, pc, run, rng, obj, particles, bokeh, vortex, centers, frame,
          pidx, canvas, canvasObj, ops, drawCalls, draws, before, composite,
          sink, emitted, firstRun, trail>>

-----------------------------------------------------------------------------
(* Arithmetic helpers *)

Abs(n) == IF n < 0 THEN -n ELSE n

Min(a, b) == IF a < b THEN a ELSE b

Max(a, b) == IF a > b THEN a ELSE b

\* int(n/d) of Python for d > 0: truncation toward zero
Trunc(n, d) == IF n >= 0 THEN n \div d ELSE -((-n) \div d)

\* nearest integer to n/d for d > 0 (saturate_cast / cvRound of OpenCV)
Round(n, d) == (2 * n + d) \div (2 * d)

RECURSIVE SqrtIter(_, _)
SqrtIter(n, r) ==
    LET s == (r + n \div r) \div 2
    IN  IF s >= r THEN r ELSE SqrtIter(n, s)

\* math.sqrt on a non-negative fixed-point square: floor of the root
Sqrt(n) == IF n <= 0 THEN 0 ELSE SqrtIter(n, n)

\* pi and 2*pi in centiradians
PiC == 314

TwoPiC == 628

\* math.sin of an angle in centiradians, result in 1/1000
\* (Bhaskara's rational approximation on each half period)
SinHalf(x) == (16000 * x * (PiC - x)) \div (5 * PiC * PiC - 4 * x * (PiC - x))

Sin(a) ==
    LET r == a % TwoPiC
    IN  IF r <= PiC THEN SinHalf(r) ELSE -SinHalf(r - PiC)

\* math.cos of an angle in centiradians, result in 1/1000
Cos(a) == Sin(a + 157)

\* the element of a one-element set; The({F(v) : v \in {e}}) computes e
\* before F is entered, which keeps the loops below iterative
The(S) == CHOOSE v \in S : TRUE

-----------------------------------------------------------------------------
(* The generator of the `random` module, abstracted to a linear             *)
(* congruential stream: seed(a) resets the state, random() advances it and  *)
(* returns state/RngMod in [0,1).                                           *)

RngMod == 1024

\* random.seed(a): an int seed is used by magnitude
Seed(a) == (Abs(a) * 7 + 3) % RngMod

\* random.random(): the state after one draw; the value drawn is Step(s)/RngMod
Step(s) == (s * 421 + 1) % RngMod

RECURSIVE After(_, _)
\* the state after k draws from state s (the value of the k-th draw)
After(s, k) ==
    IF k <= 0 THEN s
    ELSE IF k = 1 THEN Step(s)
    ELSE The({After(m, k - k \div 2) : m \in {After(s, k \div 2)}})

\* random.uniform(lo, hi) = lo + (hi - lo) * random(), r the value drawn
Uniform(lo, hi, r) == lo + ((hi - lo) * r) \div RngMod

-----------------------------------------------------------------------------
(* Configurations: the arguments of Chimerox.__init__ *)

Cfg(i, o, p, t, n, e, w, h, d, f) ==
    [iota |-> i, omicron |-> o, phase |-> p, threshold |-> t, resonance |-> n,
     entropy |-> e, width |-> w, height |-> h, duration |-> d, fps |-> f]

\* the largest number of frames of a configuration
MaxFrames == 83

Configs ==
    { c \in
        { Cfg(12345, 0, 0, 500, 200, 50, 12, 9, 1, 1),
          Cfg(12345, 0, 0, 20, 200, 50, 8, 6, 1, 24),
          Cfg(7, 1, 50, 5, 100, 10, 12, 9, 1, 2),
          Cfg(7, 1, 50, 5, 100, 10, 12, 9, 2, 1),
          Cfg(7, 2, -100, 40, 50, 50, 9, 12, 2, 1),
          Cfg(8, 2, -100, 40, 50, 50, 9, 12, 2, 1),
          Cfg(7, 6, -100, 40, 50, 50, 9, 12, 2, 1),
          Cfg(7, 2, 100, 40, 50, 50, 9, 12, 2, 1),
          Cfg(7, 2, -100, 40, 60, 50, 9, 12, 2, 1),
          Cfg(7, 2, -100, 40, 50, 50, 12, 9, 2, 1),
          Cfg(8, 5, 0, 20, 36, 50, 12, 9, 1, 2),
          Cfg(-42, -3, -30, 30, 150, 80, 12, 9, 1, 3),
          Cfg(3, 4, 0, 40, 200, 0, 12, 9, 1, 2),
          Cfg(99, 0, 25, 20, 200, 100, 12, 9, 1, 2),
          Cfg(99, 1, 25, 20, 200, 100, 12, 9, 1, 2),
          Cfg(99, 2, 25, 20, 200, 100, 9, 12, 1, 2),
          Cfg(99, 3, 25, 20, 200, 100, 12, 9, 1, 2),
          Cfg(99, 3, 0, 20, 50, 100, 12, 9, 1, 2),
          Cfg(360, 7, 10, 10, 300, 100, 12, 9, 1, 2),
          Cfg(381, 0, 0, 20, 50, 50, 8, 6, 1, 83),
          Cfg(5, 3, -50, 5, 100, 10, 8, 6, 12, 7) } :
        c.duration * c.fps <= MaxFrames }

-----------------------------------------------------------------------------
(* Chimerox.__init__: the fields computed from the arguments *)

\* variant: the count rounded to the nearest integer instead of truncated
NumParticlesRounded(c) == Round(c.threshold * 15 * (3000 + c.entropy * 70), 1000000)

\* self.num_particles = int(threshold * 0.15 * (0.3 + entropy * 0.7))
NumParticles(c) == Trunc(c.threshold * 15 * (3000 + c.entropy * 70), 1000000)

\* self.distortion_strength = entropy * resonance * 0.3, in 1/100000
DistortionStrength(c) == c.entropy * c.resonance * 3

\* self.vortex_intensity = entropy * resonance * 1.5, in 1/100000
VortexIntensity(c) == c.entropy * c.resonance * 15

\* the scalar fields assigned by __init__ (lines 27-60)
Fields(c) ==
    [total_frames          |-> c.duration * c.fps,
     num_particles         |-> NumParticles(c),
     base_hue              |-> ((c.iota % 360) * 1000) \div 360,
     hue_shift             |-> (c.omicron % 100) * 10,
     bokeh_movement_speed  |-> 80 + c.entropy \div 2,
     wave_count            |-> Trunc(80000 + c.threshold * c.entropy, 10000),
     wave_depth            |-> 6000 + (c.threshold * (100 + Abs(c.phase))) \div 15,
     wave_speed            |-> 2000 + c.resonance * 8,
     vortex_intensity      |-> VortexIntensity(c),
     vortex_rotation_speed |-> 300 + Abs(c.phase) * 5,
     distortion_strength   |-> DistortionStrength(c),
     distortion_type       |-> c.omicron % 4,
     distortion_speed      |-> 200 + Abs(c.phase) * 3]

\* the fields before construction
NoFields == [f \in DOMAIN Fields(Cfg(0, 0, 0, 1, 0, 0, 1, 1, 1, 1)) |-> 0]

-----------------------------------------------------------------------------
(* Entity initialisation.  Each operator returns the entity list; the       *)
(* number of draws it takes is given next to it.                            *)

\* variant: the offset of the two seeds without the reduction mod 10000
ParticleSeedUnreduced(c, i) == c.iota + i * c.omicron

\* seed_offset = (self.iota + i * self.omicron) % 10000 (line 67)
ParticleSeed(c, i) == (c.iota + i * c.omicron) % 10000

\* the particle dict of lines 70-81, its nine values drawn from state s0
ParticleFromSeed(c, s0) ==
    LET r(k) == After(s0, k)
    IN  [x            |-> Uniform(0, c.width * 100, r(1)),
         y            |-> Uniform(0, c.height * 100, r(2)),
         vx           |-> Trunc(Uniform(-400, 400, r(3)) * c.entropy, 100),
         vy           |-> Trunc(Uniform(-400, 400, r(4)) * c.entropy, 100),
         size         |-> Uniform(200, 1200, r(5)),
         age          |-> 0,
         life         |-> Uniform(8000, 30000, r(6)),
         orbit_radius |-> Uniform(2000, 20000, r(7)),
         orbit_speed  |-> Trunc(Uniform(200, 800, r(8)) * c.resonance, 100),
         color_offset |-> Uniform(0, 1000, r(9))]

\* one particle of _init_particles: reseed, then nine draws (lines 67-81)
NewParticle(c, i) == ParticleFromSeed(c, Seed(ParticleSeed(c, i)))

\* draws per particle in _init_particles
ParticleDraws == 9

\* _init_particles: the list for range(n)
InitParticles(c, n) == [i \in 1 .. Max(n, 0) |-> NewParticle(c, i - 1)]

\* the generator state _init_particles leaves behind, entered with state s
InitParticlesRng(c, n, s) ==
    IF n <= 0 THEN s
    ELSE After(Seed(ParticleSeed(c, n - 1)), ParticleDraws)

\* draws per entity in _init_bokeh
BokehDraws == 7

\* one bokeh of _init_bokeh, drawn from state s (lines 92-104)
NewBokeh(c, baseHue, s) ==
    LET r(k) == After(s, k)
        palette_range == ((c.omicron % 300) * 1000) \div 300
        hue_variation == ((2 * r(1) - RngMod) * palette_range) \div (2 * RngMod)
    IN  [x              |-> Uniform(-10000, (c.width + 100) * 100, r(2)),
         y              |-> Uniform(-10000, (c.height + 100) * 100, r(3)),
         size           |-> Uniform(4000, 18000, r(4)),
         hue            |-> (baseHue + hue_variation) % 1000,
         flicker_offset |-> Uniform(0, TwoPiC, r(5)),
         movement_angle |-> Uniform(0, TwoPiC, r(6)),
         depth          |-> Uniform(400, 1200, r(7))]

\* bokeh_count = int(25 + threshold * 0.08)
BokehCount(c) == Trunc(2500 + c.threshold * 8, 100)

\* _init_bokeh: consecutive draws from the running stream
InitBokeh(c, baseHue, s) ==
    [i \in 1 .. Max(BokehCount(c), 0) |-> NewBokeh(c, baseHue, After(s, BokehDraws * (i - 1)))]

\* draws per centre in _init_vortex_centers
VortexDraws == 5

\* vortex_count = int(2 + entropy * 3)
VortexCount(c) == Trunc(200 + c.entropy * 3, 100)

\* one centre of _init_vortex_centers (lines 115-121)
NewVortex(c, s) ==
    LET r(k) == After(s, k)
    IN  [x            |-> Uniform(20 * c.width, 80 * c.width, r(1)),
         y            |-> Uniform(20 * c.height, 80 * c.height, r(2)),
         orbit_radius |-> Uniform(5000, 15000, r(3)),
         orbit_speed  |-> Trunc(Uniform(50, 200, r(4)) * c.resonance, 100),
         strength     |-> Trunc(Uniform(500, 1500, r(5)) * c.entropy, 100)]

\* _init_vortex_centers
InitVortexCenters(c, s) ==
    [i \in 1 .. Max(VortexCount(c), 0) |-> NewVortex(c, After(s, VortexDraws * (i - 1)))]

\* draws per centre in _init_distortion_centers
CenterDraws == 6

\* center_count = int(1 + entropy * 2), none below strength 0.1
CenterCount(c) ==
    IF DistortionStrength(c) < 10000 THEN 0 ELSE Max(Trunc(100 + c.entropy * 2, 100), 0)

\* one centre of _init_distortion_centers (lines 135-142)
NewCenter(c, s) ==
    LET r(k) == After(s, k)
        speed == 200 + Abs(c.phase) * 3
    IN  [x              |-> Uniform(30 * c.width, 70 * c.width, r(1)),
         y              |-> Uniform(30 * c.height, 70 * c.height, r(2)),
         strength       |-> Trunc(Uniform(500, 1500, r(3)) * DistortionStrength(c), 1000),
         radius         |-> Uniform(10000, Min(c.width, c.height) * 40, r(4)),
         rotation_speed |-> Trunc(Uniform(50, 200, r(5)) * speed, 100),
         phase_offset   |-> Uniform(0, TwoPiC, r(6))]

\* _init_distortion_centers
InitDistortionCenters(c, s) ==
    [i \in 1 .. CenterCount(c) |-> NewCenter(c, After(s, CenterDraws * (i - 1)))]

-----------------------------------------------------------------------------
(* Colours and raster primitives.  A buffer maps row y in 0..height-1 and   *)
(* column x in 0..width-1 to a triple of 8-bit channels.                    *)

\* colorsys.hsv_to_rgb on h, s, v in 1/1000
HsvToRgb(h, s, v) ==
    IF s = 0 THEN <<v, v, v>>
    ELSE LET i == Trunc(h * 6, 1000)
             f == h * 6 - i * 1000
             p == (v * (1000 - s)) \div 1000
             q == (v * (1000 - (s * f) \div 1000)) \div 1000
             t == (v * (1000 - (s * (1000 - f)) \div 1000)) \div 1000
             k == i % 6
         IN  CASE k = 0 -> <<v, t, p>>
               [] k = 1 -> <<q, v, p>>
               [] k = 2 -> <<p, v, t>>
               [] k = 3 -> <<p, q, v>>
               [] k = 4 -> <<t, p, v>>
               [] OTHER -> <<v, p, q>>

\* tuple(int(c * 255) for c in rgb)
ToColor(rgb) == [k \in 1 .. 3 |-> Trunc(rgb[k] * 255, 1000)]

\* tuple(int(c * num/den) for c in color)
ScaleColor(col, num, den) == [k \in 1 .. 3 |-> Trunc(col[k] * num, den)]

\* the 8-bit saturation OpenCV applies to a colour scalar
Sat8(v) == Max(0, Min(255, v))

SatColor(col) == [k \in 1 .. 3 |-> Sat8(col[k])]

\* cv2.circle(canvas, (cx, cy), r, col, -1): filled disc
FillCircle(cv, cx, cy, r, col) ==
    LET c8 == SatColor(col)
    IN  [y \in DOMAIN cv |->
            [x \in DOMAIN cv[y] |->
                IF (x - cx) * (x - cx) + (y - cy) * (y - cy) <= r * r
                THEN c8 ELSE cv[y][x]]]

\* cv2.circle(canvas, (cx, cy), r, col, 1): one-pixel ring
RingCircle(cv, cx, cy, r, col) ==
    LET c8 == SatColor(col)
    IN  [y \in DOMAIN cv |->
            [x \in DOMAIN cv[y] |->
                LET d4 == 4 * ((x - cx) * (x - cx) + (y - cy) * (y - cy))
                IN  IF (2 * r - 1) * (2 * r - 1) <= d4 /\ d4 <= (2 * r + 1) * (2 * r + 1)
                    THEN c8 ELSE cv[y][x]]]

\* whether pixel (x, y) lies within th/2 of the segment (x1,y1)-(x2,y2)
OnLine(x, y, x1, y1, x2, y2, th) ==
    LET ex == x2 - x1
        ey == y2 - y1
        wx == x - x1
        wy == y - y1
        l2 == ex * ex + ey * ey
        dot == wx * ex + wy * ey
        cross == wx * ey - wy * ex
    IN  IF dot <= 0 THEN 4 * (wx * wx + wy * wy) <= th * th
        ELSE IF dot >= l2 THEN 4 * ((x - x2) * (x - x2) + (y - y2) * (y - y2)) <= th * th
        ELSE 4 * cross * cross <= th * th * l2

\* cv2.line(canvas, (x1, y1), (x2, y2), col, th)
DrawLine(cv, x1, y1, x2, y2, col, th) ==
    LET c8 == SatColor(col)
    IN  [y \in DOMAIN cv |->
            [x \in DOMAIN cv[y] |->
                IF OnLine(x, y, x1, y1, x2, y2, th) THEN c8 ELSE cv[y][x]]]

\* canvas = np.zeros(...); canvas[:] = (bg, bg//2, bg//3)  (lines 211-215)
Background(c, f) ==
    LET bg == Trunc(20000 + 10 * Sin(f + c.phase), 1000)
        px == <<Sat8(bg), Sat8(bg \div 2), Sat8(bg \div 3)>>
    IN  [y \in 0 .. c.height - 1 |-> [x \in 0 .. c.width - 1 |-> px]]

-----------------------------------------------------------------------------
(* Bokeh layer: _draw_bokeh (lines 262-299) *)

\* the position update of one bokeh entity (lines 269-277)
MoveBokeh(c, o, b) ==
    LET speed == (o.bokeh_movement_speed * 3) \div 10
        x1 == b.x + Trunc(Cos(b.movement_angle) * speed, 1000)
        y1 == b.y + Trunc(Sin(b.movement_angle) * speed, 1000)
        x2 == IF x1 < -15000 THEN (c.width + 100) * 100 ELSE x1
        x3 == IF x2 > (c.width + 150) * 100 THEN -10000 ELSE x2
        y2 == IF y1 < -15000 THEN (c.height + 100) * 100 ELSE y1
        y3 == IF y2 > (c.height + 150) * 100 THEN -10000 ELSE y2
    IN  [b EXCEPT !.x = x3, !.y = y3]

RECURSIVE Gradient(_, _, _, _, _, _, _)
\* for radius in range(size, 0, -max(1, size//6)): one faded disc each
Gradient(cv, x, y, size, radius, col, n) ==
    IF radius <= 0 THEN [cv |-> cv, n |-> n]
    ELSE LET alpha == ((size - radius) * 600) \div size
         IN  The({Gradient(d, x, y, size, radius - Max(1, size \div 6), col, n + 1) :
                    d \in {FillCircle(cv, x, y, radius, ScaleColor(col, alpha, 1000))}})

\* the drawing of one (already moved) bokeh entity (lines 280-299)
DrawOneBokeh(c, f, b, acc) ==
    LET ft == (f * 8) \div 10 + b.flicker_offset
        flicker == 700 + (3 * Sin(ft) * Cos((ft * 17) \div 10)) \div 10000
        saturation == 700 + (3 * Sin(f \div 5 + b.hue)) \div 10
        brightness == 500 + (c.phase + 100) * 4
        value == (((brightness * flicker) \div 1000) * b.depth) \div 1000
        col == ToColor(HsvToRgb(b.hue, saturation, value))
        x == Trunc(b.x, 100)
        y == Trunc(b.y, 100)
        size == Trunc(b.size * (800 + flicker \div 5), 100000)
    IN  IF -size <= x /\ x <= c.width + size /\ -size <= y /\ y <= c.height + size
        THEN Gradient(acc.cv, x, y, size, size, col, acc.n)
        ELSE acc

RECURSIVE DrawBokehRange(_, _, _, _, _, _)
\* for bokeh in self.bokeh_particles, entities lo..hi in list order
DrawBokehRange(c, f, list, lo, hi, acc) ==
    IF lo > hi THEN acc
    ELSE IF lo = hi THEN DrawOneBokeh(c, f, list[lo], acc)
    ELSE The({DrawBokehRange(c, f, list, (lo + hi) \div 2 + 1, hi, a) :
                a \in {DrawBokehRange(c, f, list, lo, (lo + hi) \div 2, acc)}})

\* _draw_bokeh: the moved entities, the buffer and the number of cv2 calls
DrawBokeh(c, o, f, list, cv) ==
    LET moved == [i \in DOMAIN list |-> MoveBokeh(c, o, list[i])]
        res == DrawBokehRange(c, f, moved, 1, Len(moved), [cv |-> cv, n |-> 0])
    IN  [bokeh |-> moved, cv |-> res.cv, n |-> res.n]

-----------------------------------------------------------------------------
(* Wave layer: _draw_waves (lines 301-354) *)

\* y of the wave point at column x (lines 316-328)
WaveY(c, o, t, idx, x) ==
    LET offset == (idx * TwoPiC) \div o.wave_count
        xf == (x * (800 + c.resonance * 3)) \div 1000
        amplitude == (o.wave_depth * (800 + (4 * Sin(t + offset)) \div 10)) \div 1000
        y_base == c.height \div 3 + (idx * c.height) \div (o.wave_count + 1)
        wave1 == (amplitude * Sin(xf + 2 * t + offset)) \div 1000
        diagonal == (x * 15000 * Sin(t \div 2 + offset)) \div (c.width * 1000)
        wave2 == (((amplitude * 4) \div 10) * Sin((xf * 18) \div 10 + (t * 13) \div 10 + offset)) \div 1000
        wave3 == (((amplitude * 2) \div 10) * Cos((xf * 6) \div 10 + (t * 7) \div 10 + offset)) \div 1000
    IN  Trunc(y_base * 100 + wave1 + wave2 + wave3 + diagonal, 100)

\* wave_color of wave idx (lines 332-339)
WaveColor(c, o, f, t, idx) ==
    LET offset == (idx * TwoPiC) \div o.wave_count
        hue == (o.base_hue + idx * 150 + (f * o.wave_speed) \div 5000) % 1000
        saturation == 800 + c.resonance * 2
        value == 800 + Sin(3 * t + offset) \div 5
    IN  ToColor(HsvToRgb(hue, saturation, value))

RECURSIVE DrawWaveFrom(_, _, _, _, _, _, _)
\* the segments of one wave from column x on (lines 344-354)
DrawWaveFrom(c, o, f, t, idx, x, acc) ==
    LET step == Max(1, c.width \div 300)
        y1 == WaveY(c, o, t, idx, x)
        y2 == WaveY(c, o, t, idx, x + step)
        col == WaveColor(c, o, f, t, idx)
        thickness == Max(2, Trunc(600 + c.entropy * 8, 100))
    IN  IF x + step >= c.width THEN acc
        ELSE The({DrawWaveFrom(c, o, f, t, idx, x + step, a) : a \in {
                IF 0 <= y1 /\ y1 < c.height /\ 0 <= y2 /\ y2 < c.height
                THEN [cv |-> DrawLine(DrawLine(acc.cv, x, y1, x + step, y2,
                                               ScaleColor(col, 4, 10), thickness + 8),
                                      x, y1, x + step, y2, col, thickness),
                      n |-> acc.n + 2]
                ELSE acc}})

RECURSIVE DrawWavesFrom(_, _, _, _, _, _)
DrawWavesFrom(c, o, f, t, idx, acc) ==
    IF idx >= o.wave_count THEN acc
    ELSE The({DrawWavesFrom(c, o, f, t, idx + 1, a) :
                a \in {DrawWaveFrom(c, o, f, t, idx, 0, acc)}})

\* _draw_waves: the buffer and the number of cv2 calls
DrawWaves(c, o, f, cv) ==
    DrawWavesFrom(c, o, f, (f * o.wave_speed) \div 1000, 0, [cv |-> cv, n |-> 0])

-----------------------------------------------------------------------------
(* Vortex layer: _draw_vortex_field (lines 356-407) *)

\* spiral_points = int(20 + threshold * 0.1)
SpiralPoints(c) == Trunc(200 + c.threshold, 10)

\* the point of the spiral at index idx around (cx, cy), in cp (lines 374-381)
SpiralPoint(c, o, f, cx, cy, idx) ==
    LET rotation == (f * o.vortex_rotation_speed) \div 10000
                    + (idx * 2 * TwoPiC) \div SpiralPoints(c)
        radius == idx * 2 + 10
    IN  [x |-> cx + (Cos(rotation) * radius) \div 10,
         y |-> cy + (Sin(rotation) * radius) \div 10,
         rotation |-> rotation]

InCanvas(c, x, y) == 0 <= x /\ x < c.width * 100 /\ 0 <= y /\ y < c.height * 100

\* one spiral index of one vortex (lines 383-407)
DrawSpiralPoint(c, o, f, v, cx, cy, idx, acc) ==
    LET sp == SpiralPoints(c)
        pt == SpiralPoint(c, o, f, cx, cy, idx)
        hue == (o.base_hue + pt.rotation) % 1000
        saturation == 800 + Sin(3 * f + idx * 100) \div 5
        value == (v.strength * (sp - idx) * 8) \div (sp * 10)
        col == ToColor(HsvToRgb(hue, saturation, value))
        size == Max(1, Trunc(3 * v.strength * (sp - idx), sp * 1000))
        dot == FillCircle(acc.cv, Trunc(pt.x, 100), Trunc(pt.y, 100), size, col)
        prev == SpiralPoint(c, o, f, cx, cy, idx - 3)
    IN  IF ~InCanvas(c, pt.x, pt.y) THEN acc
        ELSE IF idx > 0 /\ idx % 3 = 0 /\ InCanvas(c, prev.x, prev.y)
        THEN [cv |-> DrawLine(dot, Trunc(prev.x, 100), Trunc(prev.y, 100),
                              Trunc(pt.x, 100), Trunc(pt.y, 100), ScaleColor(col, 4, 10), 1),
              n |-> acc.n + 2]
        ELSE [cv |-> dot, n |-> acc.n + 1]

RECURSIVE DrawSpiralRange(_, _, _, _, _, _, _, _, _)
\* for spiral_idx in range(spiral_points), indices lo..hi in increasing order
DrawSpiralRange(c, o, f, v, cx, cy, lo, hi, acc) ==
    IF lo > hi THEN acc
    ELSE IF lo = hi THEN DrawSpiralPoint(c, o, f, v, cx, cy, lo, acc)
    ELSE The({DrawSpiralRange(c, o, f, v, cx, cy, (lo + hi) \div 2 + 1, hi, a) :
                a \in {DrawSpiralRange(c, o, f, v, cx, cy, lo, (lo + hi) \div 2, acc)}})

RECURSIVE DrawVortexFrom(_, _, _, _, _, _)
DrawVortexFrom(c, o, f, list, i, acc) ==
    IF i > Len(list) THEN acc
    ELSE LET v == list[i]
             orbit_t == (f * v.orbit_speed) \div 10000
         IN  The({DrawVortexFrom(c, o, f, list, i + 1, a) :
                    a \in {DrawSpiralRange(c, o, f, v, v.x + 3 * Cos(orbit_t),
                                           v.y + 3 * Sin(orbit_t), 0, SpiralPoints(c) - 1, acc)}})

\* variant: the skip threshold 0.03 instead of 0.3
VortexSkippedBelowTenth(o) == o.vortex_intensity < 3000

\* the guard of _draw_vortex_field: if self.vortex_intensity < 0.3: return
VortexSkipped(o) == o.vortex_intensity < 30000

\* variant: the orbited position is stored back into the centre
VortexCentersOrbited(f, list) ==
    [k \in DOMAIN list |->
        [list[k] EXCEPT !.x = @ + 3 * Cos((f * list[k].orbit_speed) \div 10000),
                        !.y = @ + 3 * Sin((f * list[k].orbit_speed) \div 10000)]]

\* self.vortex_centers after _draw_vortex_field: center_x and center_y are
\* locals (lines 367-368) and no key of a centre is assigned
VortexCentersAfter(f, list) == list

\* _draw_vortex_field: the buffer and the number of cv2 calls
DrawVortexField(c, o, f, list, cv) ==
    IF VortexSkipped(o) THEN [cv |-> cv, n |-> 0]
    ELSE DrawVortexFrom(c, o, f, list, 1, [cv |-> cv, n |-> 0])

-----------------------------------------------------------------------------
(* Particle layer: _update_particle (lines 160-207), _get_color (147-158)   *)
(* and the particle loop of _draw_frame (lines 227-255)                     *)

\* variant: the wrap without the phase term
WrapWithoutPhase(coord, extent, phase) ==
    IF coord < 0 \/ coord > extent THEN coord % extent ELSE coord

\* variant: only the upper bound is tested
WrapAboveOnly(coord, extent, phase) ==
    IF coord > extent THEN (coord + phase * 100) % extent ELSE coord

\* the boundary wrap of one coordinate (lines 194-197)
Wrap(coord, extent, phase) ==
    IF coord < 0 \/ coord > extent THEN (coord + phase * 100) % extent ELSE coord

\* whether the aged particle respawns (line 203)
Dead(age, life) == age * 100 > life

\* variant: the respawn draws the life as _init_particles does, from [80, 300]
RespawnLifeAsInit(r) == Uniform(8000, 30000, r)

\* particle['life'] = random.uniform(50, 200) of a respawn (line 207)
RespawnLife(r) == Uniform(5000, 20000, r)

\* variant: the stream is re-seeded before the chaos draw
ChaosDrawReseeded(s) == Step(Seed(s))

\* the generator state after random.random() of chaos_force (line 165): the
\* next value of the running stream
ChaosDraw(s) == Step(s)

\* _update_particle: the particle and the generator state it leaves
UpdateParticle(c, p, f, s) ==
    LET t == f + c.phase * 10
        wave_force == (Sin(t + p.x \div 100) * c.resonance) \div 10000
        r1 == ChaosDraw(s)
        chaos_force == ((2 * r1 - RngMod) * c.entropy) \div RngMod
        orbit_t == (t * p.orbit_speed) \div 100 + (c.omicron % 1000)
        orbit_x == (Cos(orbit_t) * p.orbit_radius) \div 1000
        orbit_y == (Sin(orbit_t) * p.orbit_radius) \div 1000
        vx1 == p.vx + wave_force + chaos_force
        vy1 == p.vy + (Cos((t * 8) \div 10) * c.resonance) \div 10000 + chaos_force
        dx == c.width * 50 + orbit_x - p.x
        dy == c.height * 50 + orbit_y - p.y
        dist == Sqrt(dx * dx + dy * dy)
        force == Min(1000, c.threshold)
        vx2 == IF dist > 0 THEN vx1 + Trunc(dx * force * 2, dist * 1000) ELSE vx1
        vy2 == IF dist > 0 THEN vy1 + Trunc(dy * force * 2, dist * 1000) ELSE vy1
        x2 == Wrap(p.x + vx2, c.width * 100, c.phase)
        y2 == Wrap(p.y + vy2, c.height * 100, c.phase)
        age1 == p.age + 1
        r2 == Step(r1)
        r3 == Step(r2)
        r4 == Step(r3)
    IN  IF Dead(age1, p.life)
        THEN [p |-> [p EXCEPT !.vx = vx2, !.vy = vy2, !.age = 0,
                              !.x = Uniform(0, c.width * 100, r2),
                              !.y = Uniform(0, c.height * 100, r3),
                              !.life = RespawnLife(r4)],
              rng |-> r4, n |-> 4]
        ELSE [p |-> [p EXCEPT !.vx = vx2, !.vy = vy2, !.x = x2, !.y = y2, !.age = age1],
              rng |-> r1, n |-> 1]

\* _get_color(t, particle)
GetColor(c, o, f, p) ==
    LET base_t == (f * 100 + c.phase) * c.resonance
        hue == (o.base_hue + (p.color_offset * o.hue_shift) \div 1000
                + Sin(base_t \div 10000) \div 5) % 1000
        saturation == 700 + (3 * Sin((2 * base_t) \div 10000 + p.age * 10)) \div 10
        value == 800 + Cos((3 * base_t) \div 10000) \div 5
    IN  ToColor(HsvToRgb(hue, saturation, value))

\* variant: one more than int(12 + resonance * 8), so that the loop
\* range(1, trail_length) makes that many passes
TrailLengthInclusive(c) == Trunc(1200 + c.resonance * 8, 100) + 1

\* trail_length = int(12 + self.resonance * 8)
TrailLength(c) == Trunc(1200 + c.resonance * 8, 100)

RECURSIVE DrawTrailFrom(_, _, _, _, _, _, _, _)
\* for i in range(1, trail_length): one faded disc each (lines 248-255)
DrawTrailFrom(c, p, x, y, size, col, i, acc) ==
    LET tl == TrailLength(c)
        tx == Trunc(x * 1000 - p.vx * i * 8, 1000)
        ty == Trunc(y * 1000 - p.vy * i * 8, 1000)
    IN  IF i >= tl THEN acc
        ELSE The({DrawTrailFrom(c, p, x, y, size, col, i + 1, a) : a \in {
                IF 0 <= tx /\ tx < c.width /\ 0 <= ty /\ ty < c.height
                THEN [cv |-> FillCircle(acc.cv, tx, ty, Max(1, Trunc(size * (tl - i), tl)),
                                        ScaleColor(col, (tl - i) * 8, tl * 10)),
                      n |-> acc.n + 1]
                ELSE acc}})

\* the drawing of one updated particle (lines 230-255)
DrawParticle(c, o, f, p, cv) ==
    LET col == GetColor(c, o, f, p)
        x == Trunc(p.x, 100)
        y == Trunc(p.y, 100)
        size == Trunc(p.size * (1000 + (3 * Sin(2 * f)) \div 10), 100000)
        main == FillCircle(cv, x, y, size, col)
        glow == IF c.entropy > 50
                THEN [cv |-> RingCircle(main, x, y, size + 3, ScaleColor(col, 3, 10)), n |-> 2]
                ELSE [cv |-> main, n |-> 1]
    IN  IF 0 <= x /\ x < c.width /\ 0 <= y /\ y < c.height
        THEN The({[cv |-> r.cv, n |-> r.n, trail |-> r.n - glow.n] :
                    r \in {DrawTrailFrom(c, p, x, y, size, col, 1, glow)}})
        ELSE [cv |-> cv, n |-> 0, trail |-> 0]

-----------------------------------------------------------------------------
(* Distortion engine: _apply_reality_distortion (lines 409-487) *)

\* variant: the skip threshold 0.005 instead of 0.05
DistortionSkippedBelowTenth(o) == o.distortion_strength < 500

\* the guard: if self.distortion_strength < 0.05: return canvas
DistortionSkipped(o) == o.distortion_strength < 5000

\* step = max(1, int(4 - self.distortion_strength * 8))
BlockStep(o) == Max(1, Trunc(400000 - o.distortion_strength * 8, 100000))

\* variant: the blend factor without the clamp to 1
BlendFactorUnclamped(o) == o.distortion_strength * 2

\* blend_factor = min(1.0, self.distortion_strength * 2), in 1/100000
BlendFactor(o) == Min(100000, o.distortion_strength * 2)

\* the offset one centre adds to the block sampled at pixel (x, y), in cp
\* (lines 432-468); <<0, 0>> when the block is out of the centre's reach
Offset(o, f, ctr, x, y) ==
    LET t == f * o.distortion_speed
        a == (t * ctr.rotation_speed) \div 100000000 + ctr.phase_offset
        dx == x * 100 - (ctr.x + 2 * Cos(a))
        dy == y * 100 - (ctr.y + 2 * Sin(a))
        distance == Sqrt(dx * dx + dy * dy)
        influence == ((ctr.radius - distance) * ctr.strength) \div ctr.radius
        tc == t \div 100
        spiral ==
            LET delta == (influence * 2) \div 1000 + tc
                k == (influence * Sin(distance \div 20 + tc)) \div 10000
                new_dist == distance + (distance * k) \div 100000
                rx == (dx * Cos(delta) - dy * Sin(delta)) \div 1000
                ry == (dx * Sin(delta) + dy * Cos(delta)) \div 1000
            IN  <<(new_dist * rx) \div distance - dx, (new_dist * ry) \div distance - dy>>
        ripple ==
            LET rp == (Sin(distance \div 10 - 3 * tc) * influence) \div 100000
            IN  <<Trunc(dx * rp, distance), Trunc(dy * rp, distance)>>
        zoom ==
            LET z == (influence * 3 * Sin(2 * tc)) \div 10000
            IN  <<Trunc(dx * z, 100000), Trunc(dy * z, 100000)>>
        wave ==
            <<(((influence * Sin(2 * y + 2 * tc)) \div 1000) * 15) \div 1000,
              (((influence * Cos(2 * x + (17 * tc) \div 10)) \div 1000) * 15) \div 1000>>
    IN  IF distance < ctr.radius /\ distance > 100
        THEN CASE o.distortion_type = 0 -> spiral
               [] o.distortion_type = 1 -> ripple
               [] o.distortion_type = 2 -> zoom
               [] OTHER -> wave
        ELSE <<0, 0>>

RECURSIVE SumOffsets(_, _, _, _, _, _)
\* the offsets of centres i.. accumulated on the block sampled at (x, y)
SumOffsets(o, f, list, i, x, y) ==
    IF i > Len(list) THEN <<0, 0>>
    ELSE LET a == Offset(o, f, list[i], x, y)
             b == SumOffsets(o, f, list, i + 1, x, y)
         IN  <<a[1] + b[1], a[2] + b[2]>>

\* variant: the maps are left at the zeros of np.zeros, the identity
\* initialisation of lines 425-428 omitted
DisplacementMapFromZero(c, o, f, list) ==
    LET step == BlockStep(o)
    IN  [y \in 0 .. c.height - 1 |->
            [x \in 0 .. c.width - 1 |->
                LET off == SumOffsets(o, f, list, 1, x - (x % step), y - (y % step))
                IN  <<Max(0, Min((c.width - 1) * 100, off[1])),
                      Max(0, Min((c.height - 1) * 100, off[2]))>>]]

\* map_x, map_y after the centre loop and np.clip, in cp (lines 421-478):
\* identity plus the offsets of the block the pixel belongs to
DisplacementMap(c, o, f, list) ==
    LET step == BlockStep(o)
    IN  [y \in 0 .. c.height - 1 |->
            [x \in 0 .. c.width - 1 |->
                LET off == SumOffsets(o, f, list, 1, x - (x % step), y - (y % step))
                IN  <<Max(0, Min((c.width - 1) * 100, x * 100 + off[1])),
                      Max(0, Min((c.height - 1) * 100, y * 100 + off[2]))>>]]

\* cv2.remap(canvas, map_x, map_y, INTER_LINEAR, BORDER_REFLECT) at one pixel
Bilinear(c, cv, mx, my) ==
    LET ix == mx \div 100
        iy == my \div 100
        fx == mx % 100
        fy == my % 100
        ix1 == Min(ix + 1, c.width - 1)
        iy1 == Min(iy + 1, c.height - 1)
    IN  [k \in 1 .. 3 |->
            Round((100 - fx) * (100 - fy) * cv[iy][ix][k] + fx * (100 - fy) * cv[iy][ix1][k]
                  + (100 - fx) * fy * cv[iy1][ix][k] + fx * fy * cv[iy1][ix1][k], 10000)]

Remap(c, cv, map) ==
    [y \in DOMAIN cv |-> [x \in DOMAIN cv[y] |-> Bilinear(c, cv, map[y][x][1], map[y][x][2])]]

\* cv2.addWeighted(canvas, 1 - blend_factor, distorted, blend_factor, 0)
AddWeighted(cv, distorted, bf) ==
    [y \in DOMAIN cv |->
        [x \in DOMAIN cv[y] |->
            [k \in 1 .. 3 |->
                Sat8(Round(cv[y][x][k] * (100000 - bf) + distorted[y][x][k] * bf, 100000))]]]

\* self.distortion_centers after _apply_reality_distortion: center_x and
\* center_y are locals (lines 432-433) and no key of a centre is assigned
DistortionCentersAfter(f, list) == list

\* _apply_reality_distortion: the returned buffer and which object it is
ApplyRealityDistortion(c, o, f, list, cv) ==
    IF DistortionSkipped(o) THEN [cv |-> cv, fresh |-> FALSE]
    ELSE [cv |-> AddWeighted(cv, Remap(c, cv, DisplacementMap(c, o, f, list)), BlendFactor(o)),
          fresh |-> TRUE]

-----------------------------------------------------------------------------
(* The state machine: construction, then generate (lines 489-520) frame by  *)
(* frame, each layer of _draw_frame (lines 209-260) one step.  A second run *)
(* of the same configuration follows the first.                             *)

\* the sink may fail at most this many times in one run
MaxFailures == 1

\* the last frame index at which a write is let fail
LastFailingFrame == 1

NoParticle ==
    [x |-> 0, y |-> 0, vx |-> 0, vy |-> 0, size |-> 0, age |-> 0, life |-> 0,
     orbit_radius |-> 0, orbit_speed |-> 0, color_offset |-> 0]

NewSink == [calls |-> <<>>, opened |-> FALSE, stored |-> 0, failures |-> 0]

NoDraws == [n |-> 0, seeds |-> 0]

Init ==
    /\ cfg \in Configs
    /\ pc = "new"
    /\ run = 1
    /\ rng = 0
    /\ obj = NoFields
    /\ particles = <<>>
    /\ bokeh = <<>>
    /\ vortex = <<>>
    /\ centers = <<>>
    /\ frame = 0
    /\ pidx = 0
    /\ canvas = <<>>
    /\ canvasObj = "none"
    /\ ops = <<>>
    /\ drawCalls = 0
    /\ draws = NoDraws
    /\ before = NoParticle
    /\ composite = <<>>
    /\ sink = NewSink
    /\ emitted = <<>>
    /\ firstRun = <<>>
    /\ trail = 0

\* variant: __init__ without random.seed(iota)
SeedAtInitOmitted(c, s) == s

\* the generator state after __init__, entered with state s: random.seed(iota)
\* (line 30), the particles, then bokeh, vortex and distortion centres
SeedAtInit(c, s) == Seed(c.iota)

\* variant: the stream is re-seeded with iota before the bokeh are drawn
AfterParticlesReseeded(c, s) == Seed(c.iota)

AfterParticles(c, s) == InitParticlesRng(c, NumParticles(c), SeedAtInit(c, s))

AfterBokeh(c, s) == After(AfterParticles(c, s), BokehDraws * Max(BokehCount(c), 0))

AfterVortex(c, s) == After(AfterBokeh(c, s), VortexDraws * Max(VortexCount(c), 0))

AfterCenters(c, s) == After(AfterVortex(c, s), CenterDraws * CenterCount(c))

\* Chimerox.__init__ (lines 16-61)
Construct ==
    /\ pc = "new"
    /\ obj' = Fields(cfg)
    /\ particles' = InitParticles(cfg, NumParticles(cfg))
    /\ bokeh' = InitBokeh(cfg, Fields(cfg).base_hue, AfterParticles(cfg, rng))
    /\ vortex' = InitVortexCenters(cfg, AfterBokeh(cfg, rng))
    /\ centers' = InitDistortionCenters(cfg, AfterVortex(cfg, rng))
    /\ rng' = AfterCenters(cfg, rng)
    /\ draws' = [n |-> ParticleDraws * Max(NumParticles(cfg), 0)
                        + BokehDraws * Max(BokehCount(cfg), 0)
                        + VortexDraws * Max(VortexCount(cfg), 0)
                        + CenterDraws * CenterCount(cfg),
                 seeds |-> 1 + Max(NumParticles(cfg), 0)]
    /\ pc' = "constructed"
    /\ UNCHANGED <<cfg, run, frame, pidx, canvas, canvasObj, ops, drawCalls, before,
                   composite, sink, emitted, firstRun, trail>>

\* variant: the loop runs one frame too many
LoopAtInclusive(f) == IF f <= obj.total_frames THEN "clear" ELSE "close"

\* for frame in range(self.total_frames): where generate goes once frame f
\* is the next to compute (line 512)
LoopAt(f) == IF f < obj.total_frames THEN "clear" ELSE "close"

\* variant: the vortex layer drawn before the wave layer
DrawFrameOrderSwapped ==
    <<"clear", "bokeh", "vortex", "waves", "particles", "distort", "write">>

\* the statements of _draw_frame in program order (lines 211-258), followed
\* by out.write of generate (line 517)
DrawFrameOrder == <<"clear", "bokeh", "waves", "vortex", "particles", "distort", "write">>

\* the statement that follows statement l
StepAfter(l) ==
    LET k == CHOOSE j \in DOMAIN DrawFrameOrder : DrawFrameOrder[j] = l
    IN  DrawFrameOrder[k + 1]

\* the position after statement l: the particle loop is entered at its first
\* particle, or passed over when self.particles is empty
Goto(l) ==
    IF StepAfter(l) = "particles"
    THEN IF Len(particles) >= 1 THEN "update" ELSE StepAfter("particles")
    ELSE StepAfter(l)

genUnchanged == <<cfg, run, rng, obj, particles, bokeh, vortex, centers, pidx, canvas,
                  canvasObj, ops, drawCalls, draws, before, composite, emitted, firstRun, trail>>

\* out = cv2.VideoWriter(...) succeeds (line 508)
Open ==
    /\ pc = "constructed"
    /\ sink' = [sink EXCEPT !.calls = Append(@, <<"open">>), !.opened = TRUE]
    /\ frame' = 0
    /\ pc' = LoopAt(0)
    /\ UNCHANGED genUnchanged

\* the writer cannot be opened and reports it only through isOpened()
OpenFailsQuietly ==
    /\ pc = "constructed"
    /\ sink.failures < MaxFailures
    /\ sink' = [sink EXCEPT !.calls = Append(@, <<"open">>), !.failures = @ + 1]
    /\ frame' = 0
    /\ pc' = LoopAt(0)
    /\ UNCHANGED genUnchanged

\* opening the writer raises; generate has no handler and propagates
OpenRaises ==
    /\ pc = "constructed"
    /\ sink.failures < MaxFailures
    /\ sink' = [sink EXCEPT !.calls = Append(@, <<"open">>), !.failures = @ + 1]
    /\ pc' = "raised"
    /\ UNCHANGED <<frame>>
    /\ UNCHANGED genUnchanged

\* canvas = np.zeros(...); canvas[:] = background (lines 211-215)
Clear ==
    /\ pc = "clear"
    /\ canvas' = Background(cfg, frame)
    /\ canvasObj' = "canvas"
    /\ ops' = <<"clear">>
    /\ drawCalls' = 0
    /\ pidx' = 1
    /\ pc' = Goto("clear")
    /\ UNCHANGED <<cfg, run, rng, obj, particles, bokeh, vortex, centers, frame,
                   draws, before, composite, sink, emitted, firstRun, trail>>

\* self._draw_bokeh(canvas, frame) (line 218)
Bokeh ==
    /\ pc = "bokeh"
    /\ \E res \in {DrawBokeh(cfg, obj, frame, bokeh, canvas)} :
          /\ bokeh' = res.bokeh
          /\ canvas' = res.cv
          /\ drawCalls' = drawCalls + res.n
    /\ ops' = Append(ops, "bokeh")
    /\ pc' = Goto("bokeh")
    /\ UNCHANGED <<cfg, run, rng, obj, particles, vortex, centers, frame, pidx, canvasObj,
                   draws, before, composite, sink, emitted, firstRun, trail>>

\* self._draw_waves(canvas, frame) (line 221)
Waves ==
    /\ pc = "waves"
    /\ \E res \in {DrawWaves(cfg, obj, frame, canvas)} :
          /\ canvas' = res.cv
          /\ drawCalls' = drawCalls + res.n
    /\ ops' = Append(ops, "waves")
    /\ pc' = Goto("waves")
    /\ UNCHANGED <<cfg, run, rng, obj, particles, bokeh, vortex, centers, frame, pidx,
                   canvasObj, draws, before, composite, sink, emitted, firstRun, trail>>

\* self._draw_vortex_field(canvas, frame) (line 224)
Vortex ==
    /\ pc = "vortex"
    /\ \E res \in {DrawVortexField(cfg, obj, frame, vortex, canvas)} :
          /\ canvas' = res.cv
          /\ drawCalls' = drawCalls + res.n
    /\ vortex' = VortexCentersAfter(frame, vortex)
    /\ ops' = Append(ops, "vortex")
    /\ pc' = Goto("vortex")
    /\ UNCHANGED <<cfg, run, rng, obj, particles, bokeh, centers, frame, pidx,
                   canvasObj, draws, before, composite, sink, emitted, firstRun, trail>>

\* variant: the updated particle is appended as a new entity
StoreParticleAppended(list, i, p) == Append(list, p)

\* the particle dict is the list's own element: the assignments of
\* _update_particle to its keys change the entity at its index, in place
StoreParticle(list, i, p) == [list EXCEPT ![i] = p]

\* self._update_particle(particle, frame) for the particle at pidx (line 228)
Update ==
    /\ pc = "update"
    /\ \E res \in {UpdateParticle(cfg, particles[pidx], frame, rng)} :
          /\ particles' = StoreParticle(particles, pidx, res.p)
          /\ rng' = res.rng
          /\ draws' = [draws EXCEPT !.n = @ + res.n]
    /\ before' = particles[pidx]
    /\ ops' = Append(ops, "update")
    /\ pc' = "draw"
    /\ UNCHANGED <<cfg, run, obj, bokeh, vortex, centers, frame, pidx, canvas, canvasObj,
                   drawCalls, composite, sink, emitted, firstRun, trail>>

\* the drawing of the particle at pidx (lines 230-255), then the next particle
Draw ==
    /\ pc = "draw"
    /\ \E res \in {DrawParticle(cfg, obj, frame, particles[pidx], canvas)} :
          /\ canvas' = res.cv
          /\ drawCalls' = drawCalls + res.n
          /\ trail' = res.trail
    /\ ops' = Append(ops, "draw")
    /\ pidx' = pidx + 1
    /\ pc' = IF pidx < Len(particles) THEN "update" ELSE StepAfter("particles")
    /\ UNCHANGED <<cfg, run, rng, obj, particles, bokeh, vortex, centers, frame,
                   canvasObj, draws, before, composite, sink, emitted, firstRun>>

\* canvas = self._apply_reality_distortion(canvas, frame) (line 258)
Distort ==
    /\ pc = "distort"
    /\ \E res \in {ApplyRealityDistortion(cfg, obj, frame, centers, canvas)} :
          /\ canvas' = res.cv
          /\ canvasObj' = IF res.fresh THEN "result" ELSE canvasObj
    /\ centers' = DistortionCentersAfter(frame, centers)
    /\ composite' = canvas
    /\ ops' = Append(ops, "distort")
    /\ pc' = Goto("distort")
    /\ UNCHANGED <<cfg, run, rng, obj, particles, bokeh, vortex, frame, pidx,
                   drawCalls, draws, before, sink, emitted, firstRun, trail>>

\* what the core hands over with a frame, and the state it leaves behind
Snapshot ==
    [frame |-> frame, canvas |-> canvas, rng |-> rng, draws |-> draws.n,
     particles |-> particles, bokeh |-> bokeh]

writeUnchanged == <<cfg, run, rng, obj, particles, bokeh, vortex, centers, pidx, canvas,
                    canvasObj, ops, drawCalls, draws, before, composite, firstRun, trail>>

\* out.write(canvas) (line 517); an unopened writer stores nothing
Write ==
    /\ pc = "write"
    /\ sink' = [sink EXCEPT !.calls = Append(@, <<"write", frame>>),
                            !.stored = IF sink.opened THEN @ + 1 ELSE @]
    /\ emitted' = Append(emitted, Snapshot)
    /\ frame' = frame + 1
    /\ pc' = LoopAt(frame + 1)
    /\ UNCHANGED writeUnchanged

\* the writer drops the frame without raising
WriteFailsQuietly ==
    /\ pc = "write"
    /\ sink.failures < MaxFailures
    /\ frame <= LastFailingFrame
    /\ sink' = [sink EXCEPT !.calls = Append(@, <<"write", frame>>), !.failures = @ + 1]
    /\ emitted' = Append(emitted, Snapshot)
    /\ frame' = frame + 1
    /\ pc' = LoopAt(frame + 1)
    /\ UNCHANGED writeUnchanged

\* out.write raises; generate has no handler and propagates
WriteRaises ==
    /\ pc = "write"
    /\ sink.failures < MaxFailures
    /\ frame <= LastFailingFrame
    /\ sink' = [sink EXCEPT !.calls = Append(@, <<"write", frame>>), !.failures = @ + 1]
    /\ pc' = "raised"
    /\ UNCHANGED <<frame, emitted>>
    /\ UNCHANGED writeUnchanged

\* out.release() (line 519)
Close ==
    /\ pc = "close"
    /\ sink' = [sink EXCEPT !.calls = Append(@, <<"close">>), !.opened = FALSE]
    /\ pc' = "done"
    /\ UNCHANGED <<frame>>
    /\ UNCHANGED genUnchanged

\* a second, independent run of the same configuration: a new object and a
\* new writer; the generator is the one the first run left (same interpreter)
\* or a newly started one.  The run that is repeated is one the sink accepted.
SecondRun ==
    /\ pc = "done"
    /\ run = 1
    /\ sink.failures = 0
    /\ run' = 2
    /\ firstRun' = emitted
    /\ rng' \in {rng, 0}
    /\ pc' = "new"
    /\ obj' = NoFields
    /\ particles' = <<>>
    /\ bokeh' = <<>>
    /\ vortex' = <<>>
    /\ centers' = <<>>
    /\ frame' = 0
    /\ pidx' = 0
    /\ canvas' = <<>>
    /\ canvasObj' = "none"
    /\ ops' = <<>>
    /\ drawCalls' = 0
    /\ draws' = NoDraws
    /\ before' = NoParticle
    /\ composite' = <<>>
    /\ sink' = NewSink
    /\ emitted' = <<>>
    /\ trail' = 0
    /\ UNCHANGED cfg

Next ==
    \/ Construct
    \/ Open
    \/ OpenFailsQuietly
    \/ OpenRaises
    \/ Clear
    \/ Bokeh
    \/ Waves
    \/ Vortex
    \/ Update
    \/ Draw
    \/ Distort
    \/ Write
    \/ WriteFailsQuietly
    \/ WriteRaises
    \/ Close
    \/ SecondRun

Spec == Init /\ [][Next]_vars

-----------------------------------------------------------------------------
(* _update_particle called on a particle whose fields were set by hand: the *)
(* object is constructed as usual, one particle is overwritten, and the     *)
(* method is called on it for successive frames.                            *)

\* the largest number of successive calls
MaxUpdates == 3

\* the age a particle is forced to, beyond every life
ForcedAge == 400

UpdateConfigs ==
    { Cfg(3, 4, 0, 40, 200, 0, 12, 9, 1, 2),
      Cfg(8, 5, 0, 20, 36, 50, 12, 9, 1, 2),
      Cfg(99, 3, 25, 20, 200, 100, 12, 9, 1, 2),
      Cfg(7, 2, -100, 40, 50, 50, 9, 12, 2, 1) }

\* the particle fields a caller sets before the call
ForcedParticles(c, p) ==
    { [p EXCEPT !.x = x, !.y = y, !.vx = vx, !.age = age] :
        x \in {0, c.width * 50, c.width * 100, (c.width + 5) * 100, -300},
        y \in {c.height * 50, (c.height + 5) * 100},
        vx \in {-1000, 0, 250},
        age \in {0, p.life \div 100, ForcedAge} }

InitUpdate ==
    /\ cfg \in UpdateConfigs
    /\ pc = "update"
    /\ run = 1
    /\ rng = AfterCenters(cfg, 0)
    /\ obj = Fields(cfg)
    /\ pidx \in 1 .. NumParticles(cfg)
    /\ \E p \in ForcedParticles(cfg, NewParticle(cfg, pidx - 1)) :
          particles = [InitParticles(cfg, NumParticles(cfg)) EXCEPT ![pidx] = p]
    /\ bokeh = InitBokeh(cfg, Fields(cfg).base_hue, AfterParticles(cfg, 0))
    /\ vortex = InitVortexCenters(cfg, AfterBokeh(cfg, 0))
    /\ centers = InitDistortionCenters(cfg, AfterVortex(cfg, 0))
    /\ frame = 0
    /\ canvas = Background(cfg, 0)
    /\ canvasObj = "canvas"
    /\ ops = <<>>
    /\ drawCalls = 0
    /\ draws = NoDraws
    /\ before = NoParticle
    /\ composite = <<>>
    /\ sink = NewSink
    /\ emitted = <<>>
    /\ firstRun = <<>>
    /\ trail = 0

\* the caller calls _update_particle on the same particle for the next frame
CallAgain ==
    /\ pc = "draw"
    /\ frame + 1 < MaxUpdates
    /\ frame' = frame + 1
    /\ pc' = "update"
    /\ ops' = <<>>
    /\ UNCHANGED <<cfg, run, rng, obj, particles, bokeh, vortex, centers, pidx, canvas,
                   canvasObj, drawCalls, draws, before, composite, sink, emitted, firstRun, trail>>

NextUpdate ==
    \/ Update
    \/ CallAgain

SpecUpdate == InitUpdate /\ [][NextUpdate]_vars

-----------------------------------------------------------------------------
(* Properties *)

IsPrefix(p, q) == Len(p) <= Len(q) /\ \A k \in 1 .. Len(p) : p[k] = q[k]

\* the positions of generate inside _draw_frame
InFrame == pc \in {"clear", "bokeh", "waves", "vortex", "update", "draw", "distort", "write"}

\* C1: two independent runs of one configuration hand the same frames to the
\* sink: the same number of frames and, frame by frame, the same buffer, the
\* same generator state and draw count, the same particle and bokeh state.
Determinism ==
    run = 2 =>
        /\ IsPrefix(emitted, firstRun)
        /\ pc = "done" => emitted = firstRun

DeterminismWitness ==
    /\ run = 2
    /\ pc = "done"
    /\ Len(emitted) >= 2
    /\ Len(particles) >= 1
    /\ emitted[2].rng # emitted[1].rng

\* the sink calls of a complete run of n frames
Protocol(n) ==
    <<<<"open">>>> \o [k \in 1 .. n |-> <<"write", k - 1>>] \o <<<<"close">>>>

\* the number of write calls the sink has received
Writes == Cardinality({k \in DOMAIN sink.calls : sink.calls[k][1] = "write"})

\* C2: generate opens the sink once, then writes frames 0, 1, ... in order,
\* one write per frame and each only when the frame is fully computed, and
\* closes the sink once after the last write: duration*fps writes in all,
\* none before the open or after the close.
SinkProtocol ==
    /\ pc # "new" => IsPrefix(sink.calls, Protocol(cfg.duration * cfg.fps))
    /\ pc = "done" => sink.calls = Protocol(cfg.duration * cfg.fps)
    /\ InFrame => Writes = frame /\ frame < cfg.duration * cfg.fps
    /\ pc = "write" => ops # <<>> /\ ops[Len(ops)] = "distort"
    /\ pc \in {"close", "done"} => Writes = cfg.duration * cfg.fps

SinkProtocolWitness ==
    /\ pc = "done"
    /\ cfg.duration = 1
    /\ cfg.fps = 24
    /\ Writes = 24
    /\ Len(sink.calls) = 26

\* C3: once the sink has failed, at open or at a write, generate is aborted:
\* no further frame is computed or written.
SinkFailureIsFatal == sink.failures > 0 => pc = "raised"

\* the layer operations of one frame with n particles
FrameOps(n) ==
    <<"clear", "bokeh", "waves", "vortex">>
    \o [k \in 1 .. 2 * n |-> IF k % 2 = 1 THEN "update" ELSE "draw"]
    \o <<"distort">>

\* C4: within a frame the operations are, in this order, clear, bokeh, waves,
\* vortex, update then draw for each particle in list order, distortion, and
\* only then the write; frame N+1 begins only after frame N is written.
LayerOrder ==
    /\ InFrame => IsPrefix(ops, FrameOps(Len(particles)))
    /\ pc = "write" => ops = FrameOps(Len(particles))
    /\ pc = "draw" => Len(ops) = 3 + 2 * pidx
    /\ InFrame => Len(emitted) = frame

LayerOrderWitness ==
    /\ pc = "write"
    /\ frame = 1
    /\ Len(particles) = 3
    /\ Len(ops) = 11

\* C5: a call of _update_particle on a particle whose age exceeds its life
\* leaves that particle, in place, with age 0 and a life in [50, 200].
RespawnOnUpdate ==
    (pc = "draw" /\ before.age * 100 > before.life) =>
        /\ particles[pidx].age = 0
        /\ particles[pidx].life >= 5000
        /\ particles[pidx].life <= 20000
        /\ Len(particles) = NumParticles(cfg)

RespawnWitness ==
    /\ pc = "draw"
    /\ before.age * 100 > before.life
    /\ particles[pidx].age = 0
    /\ particles[pidx].life # before.life

\* C6 as stated: a particle that is at x = width + 5 when _update_particle is
\* called, with phase 0, is at x = 5 mod width when the call returns.
WrapFromEntryPosition ==
    (pc = "draw" /\ cfg.phase = 0 /\ before.x = (cfg.width + 5) * 100) =>
        particles[pidx].x = 500 % (cfg.width * 100)

\* the coordinate the wrap of C6 yields for position v on an axis of extent e
Wrapped(v, e) == IF v < 0 \/ v > e THEN (v + cfg.phase * 100) % e ELSE v

\* C6 amended: in a call that does not respawn the particle, the position
\* reached by adding the updated velocity is, on each axis where it is out of
\* bounds, replaced by (coord + phase*100) mod extent, and kept otherwise.
WrapAfterIntegration ==
    (pc = "draw" /\ ~((before.age + 1) * 100 > before.life)) =>
        /\ particles[pidx].x
             = Wrapped(before.x + particles[pidx].vx, cfg.width * 100)
        /\ particles[pidx].y
             = Wrapped(before.y + particles[pidx].vy, cfg.height * 100)

WrapWitness ==
    /\ pc = "draw"
    /\ cfg.phase # 0
    /\ ~((before.age + 1) * 100 > before.life)
    /\ before.x + particles[pidx].vx > cfg.width * 100
    /\ particles[pidx].x = (before.x + particles[pidx].vx + cfg.phase * 100) % (cfg.width * 100)
    /\ particles[pidx].x # before.x + particles[pidx].vx

\* C7: with distortion_strength below 0.05 the distortion pass returns the
\* composited buffer itself, unchanged, in every frame.
DistortionSkip ==
    (pc = "write" /\ cfg.entropy * cfg.resonance * 3 < 5000) =>
        /\ canvas = composite
        /\ canvasObj = "canvas"

DistortionSkipWitness ==
    /\ pc = "write"
    /\ frame = 1
    /\ cfg.entropy * cfg.resonance * 3 < 5000
    /\ cfg.entropy > 0
    /\ canvas = composite

\* the frame resampled through the displacement field of the current frame
Resampled == Remap(cfg, composite, DisplacementMap(cfg, obj, frame, centers))

\* C8: for distortion_strength >= 0.5 the blend factor is 1 and the emitted
\* frame is the resampled frame alone; for 0.05 <= strength < 0.5 the frame
\* is original*(1 - 2*strength) + resampled*(2*strength).
BlendClamp ==
    pc = "write" =>
        LET strength == cfg.entropy * cfg.resonance * 3
        IN  /\ strength >= 50000 => canvas = Resampled
            /\ (5000 <= strength /\ strength < 50000) =>
                  canvas = AddWeighted(composite, Resampled, 2 * strength)

BlendClampWitness ==
    /\ pc = "write"
    /\ cfg.entropy * cfg.resonance * 3 > 50000
    /\ canvas = Resampled
    /\ canvas # composite

\* C9: with entropy*resonance*1.5 below 0.3, _draw_vortex_field makes no
\* drawing call and leaves the buffer as it was.
VortexSkip ==
    [][(pc = "vortex" /\ cfg.entropy * cfg.resonance * 15 < 30000)
         => (canvas' = canvas /\ drawCalls' = drawCalls)]_vars

VortexSkipWitness ==
    /\ ops # <<>>
    /\ ops[Len(ops)] = "vortex"
    /\ cfg.entropy * cfg.resonance * 15 < 30000
    /\ cfg.entropy * cfg.resonance > 0
    /\ Len(vortex) >= 2

ConstructionLengths ==
    /\ Len(particles) = (cfg.threshold * 15 * (3000 + cfg.entropy * 70)) \div 1000000
    /\ Len(bokeh) = (2500 + cfg.threshold * 8) \div 100
    /\ Len(vortex) = (200 + cfg.entropy * 3) \div 100
    /\ Len(centers) = IF cfg.entropy * cfg.resonance * 3 < 10000 THEN 0
                      ELSE (100 + cfg.entropy * 2) \div 100

\* C11: from construction on and through every generated frame the particle,
\* bokeh, vortex-centre and distortion-centre lists keep the length given to
\* them at construction; no step of a run adds or removes an entity, and an
\* update, respawn included, leaves the other particles and the fields size,
\* orbit_radius, orbit_speed and color_offset of its own particle as they were.
EntityListsFixed ==
    /\ [](pc # "new" => ConstructionLengths)
    /\ [][(pc # "new" /\ pc' # "new") =>
            /\ Len(particles') = Len(particles)
            /\ Len(bokeh') = Len(bokeh)
            /\ vortex' = vortex
            /\ centers' = centers
            /\ pc = "update" =>
                  /\ \A k \in DOMAIN particles :
                        k # pidx => particles'[k] = particles[k]
                  /\ DOMAIN particles'[pidx] = DOMAIN particles[pidx]
                  /\ \A fld \in {"size", "orbit_radius", "orbit_speed", "color_offset"} :
                        particles'[pidx][fld] = particles[pidx][fld]]_vars

EntityListsFixedWitness ==
    /\ pc = "draw"
    /\ frame >= 2
    /\ before.age * 100 + 100 > before.life
    /\ particles[pidx].age = 0
    /\ particles[pidx].x # before.x
    /\ Len(particles) >= 1
    /\ Len(bokeh) >= 1
    /\ Len(vortex) >= 1

\* C12 as stated: every call of _update_particle takes exactly one value, so
\* from one written frame to the next the stream advances by the number of
\* particles, and it is never re-seeded after construction.
OneDrawPerUpdate ==
    /\ pc # "new" => draws.seeds = 1 + Len(particles)
    /\ \A k \in 2 .. Len(emitted) :
          /\ emitted[k].draws = emitted[k - 1].draws + Len(particles)
          /\ emitted[k].rng = After(emitted[k - 1].rng, Len(particles))

\* the values a call of _update_particle takes for particle p: the chaos
\* draw, and the position and life of a respawn
UpdateDraws(p) == IF (p.age + 1) * 100 > p.life THEN 4 ELSE 1

\* C12 amended: after construction the stream is never re-seeded and only
\* _update_particle draws from it: one value per call, and three more (x, y,
\* life) in a call that respawns its particle; the calls of a frame come in
\* particle-list order, so a frame takes num_particles values plus three for
\* each respawn in it.
DrawsPerUpdate ==
    [][(pc # "new" /\ pc' # "new") =>
        LET n == IF pc = "update" THEN UpdateDraws(particles[pidx]) ELSE 0
        IN  /\ rng' = After(rng, n)
            /\ draws'.n = draws.n + n
            /\ draws'.seeds = draws.seeds
            /\ pc = "update" => pidx = (Len(ops) - 4) \div 2 + 1]_vars

DrawsPerUpdateWitness ==
    /\ pc = "draw"
    /\ Len(emitted) >= 2
    /\ (before.age + 1) * 100 > before.life
    /\ draws.n = emitted[Len(emitted)].draws + 3 + pidx
    /\ rng = After(emitted[Len(emitted)].rng, 3 + pidx)
    /\ rng # After(emitted[Len(emitted)].rng, pidx)

\* C13: _init_particles re-seeds the stream for particle i, in increasing i,
\* with (iota + i*omicron) mod 10000, a value in 0..9999 also for negative
\* seeds, and takes the next nine values for x, y, vx, vy, size, life,
\* orbit_radius, orbit_speed, color_offset in this order; one seeding call
\* per particle besides that of __init__; a particle of another configuration
\* with the same re-seed value, dimensions, entropy and resonance is the same.
ParticleReseeding ==
    pc = "constructed" =>
        /\ draws.seeds = 1 + Len(particles)
        /\ \A i \in 0 .. Len(particles) - 1 :
              LET v == (cfg.iota + i * cfg.omicron) % 10000
                  p == particles[i + 1]
              IN  /\ v \in 0 .. 9999
                  /\ p.x = Uniform(0, cfg.width * 100, After(Seed(v), 1))
                  /\ p.y = Uniform(0, cfg.height * 100, After(Seed(v), 2))
                  /\ p.vx = Trunc(Uniform(-400, 400, After(Seed(v), 3)) * cfg.entropy, 100)
                  /\ p.vy = Trunc(Uniform(-400, 400, After(Seed(v), 4)) * cfg.entropy, 100)
                  /\ p.size = Uniform(200, 1200, After(Seed(v), 5))
                  /\ p.age = 0
                  /\ p.life = Uniform(8000, 30000, After(Seed(v), 6))
                  /\ p.orbit_radius = Uniform(2000, 20000, After(Seed(v), 7))
                  /\ p.orbit_speed
                       = Trunc(Uniform(200, 800, After(Seed(v), 8)) * cfg.resonance, 100)
                  /\ p.color_offset = Uniform(0, 1000, After(Seed(v), 9))
                  /\ \A c \in Configs :
                        \A j \in 0 .. NumParticles(c) - 1 :
                          (/\ (c.iota + j * c.omicron) % 10000 = v
                           /\ c.width = cfg.width
                           /\ c.height = cfg.height
                           /\ c.entropy = cfg.entropy
                           /\ c.resonance = cfg.resonance)
                          => InitParticles(c, NumParticles(c))[j + 1] = p

ParticleReseedingWitness ==
    /\ pc = "constructed"
    /\ cfg.iota < 0
    /\ cfg.omicron < 0
    /\ Len(particles) >= 3
    /\ particles[1] # particles[2]
    /\ particles[2] # particles[3]
    /\ cfg.iota + 2 * cfg.omicron < 0
    /\ particles[3].x
         = Uniform(0, cfg.width * 100,
                   After(Seed(10000 + cfg.iota + 2 * cfg.omicron), 1))

\* the state the stream is in when _init_particles returns
StreamAfterParticles ==
    IF Len(particles) = 0 THEN Seed(cfg.iota)
    ELSE After(Seed((cfg.iota + (Len(particles) - 1) * cfg.omicron) % 10000), 9)

\* the values __init__ takes from the stream after the particles
DrawsAfterParticles == 7 * Len(bokeh) + 5 * Len(vortex) + 6 * Len(centers)

\* C14: the stream is not re-seeded after the last particle: the bokeh, then
\* the vortex centres, then the distortion centres take consecutive values
\* from the state the last particle's seeding call and nine draws left (the
\* state seeded with iota when there is no particle), and the first draw of
\* the first frame continues from there.
CrossLayerCoupling ==
    LET s0 == StreamAfterParticles
        B == Len(bokeh)
        V == Len(vortex)
    IN  /\ pc = "constructed" =>
              /\ draws.seeds = 1 + Len(particles)
              /\ draws.n = 9 * Len(particles) + DrawsAfterParticles
              /\ rng = After(s0, DrawsAfterParticles)
              /\ \A k \in 1 .. B :
                    /\ bokeh[k].x
                         = Uniform(-10000, (cfg.width + 100) * 100, After(s0, 7 * (k - 1) + 2))
                    /\ bokeh[k].size = Uniform(4000, 18000, After(s0, 7 * (k - 1) + 4))
                    /\ bokeh[k].depth = Uniform(400, 1200, After(s0, 7 * (k - 1) + 7))
              /\ \A k \in 1 .. V :
                    /\ vortex[k].x
                         = Uniform(20 * cfg.width, 80 * cfg.width,
                                   After(s0, 7 * B + 5 * (k - 1) + 1))
                    /\ vortex[k].orbit_radius
                         = Uniform(5000, 15000, After(s0, 7 * B + 5 * (k - 1) + 3))
              /\ \A k \in 1 .. Len(centers) :
                    /\ centers[k].x
                         = Uniform(30 * cfg.width, 70 * cfg.width,
                                   After(s0, 7 * B + 5 * V + 6 * (k - 1) + 1))
                    /\ centers[k].phase_offset
                         = Uniform(0, 628, After(s0, 7 * B + 5 * V + 6 * (k - 1) + 6))
        /\ (Len(emitted) = 0 /\ frame = 0
              /\ (pc \in {"clear", "bokeh", "waves", "vortex"} \/ (pc = "update" /\ pidx = 1)))
             => rng = After(s0, DrawsAfterParticles)
        /\ (Len(emitted) = 0 /\ frame = 0 /\ pc = "draw" /\ pidx = 1)
             => rng = After(s0, DrawsAfterParticles + 1)

CrossLayerCouplingWitness ==
    /\ pc = "draw"
    /\ frame = 0
    /\ pidx = 1
    /\ Len(emitted) = 0
    /\ Len(particles) >= 2
    /\ Len(centers) >= 1
    /\ rng = After(StreamAfterParticles, DrawsAfterParticles + 1)
    /\ StreamAfterParticles # Seed(cfg.iota)

\* C15: _draw_vortex_field and _apply_reality_distortion change no vortex
\* centre, distortion centre, particle, bokeh entity nor the stream; the
\* centres are, throughout a run, the ones construction drew, their orbited
\* positions being recomputed from the frame index in each call.
CentresStateless ==
    /\ [][(pc = "vortex" \/ pc = "distort") =>
            /\ vortex' = vortex
            /\ centers' = centers
            /\ particles' = particles
            /\ bokeh' = bokeh
            /\ rng' = rng
            /\ draws' = draws]_vars
    /\ [](pc # "new" =>
            /\ vortex = InitVortexCenters(cfg, After(StreamAfterParticles, 7 * Len(bokeh)))
            /\ centers = InitDistortionCenters(cfg,
                            After(StreamAfterParticles, 7 * Len(bokeh) + 5 * Len(vortex))))

CentresStatelessWitness ==
    /\ pc = "write"
    /\ frame >= 1
    /\ Len(centers) >= 1
    /\ Len(vortex) >= 1
    /\ obj.vortex_intensity >= 30000
    /\ canvas # composite
    /\ canvas # emitted[1].canvas
    /\ particles # emitted[1].particles
    /\ bokeh # emitted[1].bokeh
    /\ vortex = InitVortexCenters(cfg, After(StreamAfterParticles, 7 * Len(bokeh)))

\* the state right after the drawing step of a particle, and that particle
JustDrawn == ops # <<>> /\ ops[Len(ops)] = "draw"

\* whether pixel position (x, y) is inside the buffer
Inside(x, y) == 0 <= x /\ x < cfg.width /\ 0 <= y /\ y < cfg.height

\* the centre of the i-th trailing disc of particle p: int(x - vx*i*0.8)
TrailX(p, i) == Trunc(Trunc(p.x, 100) * 1000 - p.vx * i * 8, 1000)

TrailY(p, i) == Trunc(Trunc(p.y, 100) * 1000 - p.vy * i * 8, 1000)

\* C16 as stated: every particle that is drawn gets 12 + resonance*8
\* (floored) trailing discs.
TrailOfFullLength ==
    (JustDrawn /\ Inside(Trunc(particles[pidx - 1].x, 100), Trunc(particles[pidx - 1].y, 100)))
        => trail = (1200 + cfg.resonance * 8) \div 100

\* C16 amended: with L = floor(12 + resonance*8), a drawn particle gets one
\* trailing disc for each i in 1..L-1 whose centre, the position extrapolated
\* backward by velocity*i*0.8, is inside the buffer: at most L-1 discs, the
\* i-th in the particle's colour scaled by (1 - i/L)*0.8; a particle that is
\* not drawn gets none.
TrailWithinCanvas ==
    JustDrawn =>
        LET p == particles[pidx - 1]
            L == (1200 + cfg.resonance * 8) \div 100
            shown == {i \in 1 .. L - 1 : Inside(TrailX(p, i), TrailY(p, i))}
            last == CHOOSE i \in shown : \A j \in shown : j <= i
        IN  IF Inside(Trunc(p.x, 100), Trunc(p.y, 100))
            THEN /\ trail = Cardinality(shown)
                 /\ trail <= L - 1
                 /\ shown # {} =>
                       canvas[TrailY(p, last)][TrailX(p, last)]
                         = ScaleColor(GetColor(cfg, obj, frame, p), (L - last) * 8, L * 10)
            ELSE trail = 0

TrailWithinCanvasWitness ==
    /\ JustDrawn
    /\ Inside(Trunc(particles[pidx - 1].x, 100), Trunc(particles[pidx - 1].y, 100))
    /\ trail >= 2
    /\ trail < (1200 + cfg.resonance * 8) \div 100 - 1
    /\ frame >= 1

\* C17: when a call of _update_particle returns, its particle is inside the
\* canvas, 0 <= x <= width and 0 <= y <= height, whatever position and
\* velocity it was called with; the particles left as construction drew them
\* are inside as well.
PositionInvariant ==
    pc = "draw" =>
        \A k \in DOMAIN particles :
            /\ 0 <= particles[k].x
            /\ particles[k].x <= cfg.width * 100
            /\ 0 <= particles[k].y
            /\ particles[k].y <= cfg.height * 100

PositionInvariantWitness ==
    /\ pc = "draw"
    /\ cfg.phase # 0
    /\ before.x < 0
    /\ before.x + particles[pidx].vx < 0
    /\ before.y + particles[pidx].vy > cfg.height * 100
    /\ ~((before.age + 1) * 100 > before.life)
    /\ particles[pidx].x >= 0
    /\ particles[pidx].x <= cfg.width * 100
    /\ particles[pidx].y <= cfg.height * 100

\* whether the buffer has two pixels that differ
Varied(cv) == \E y \in DOMAIN cv : \E x \in DOMAIN cv[y] : cv[y][x] # cv[0][0]

\* whether no sampled block gets an offset from any centre in this frame
NoOffsets ==
    \A k \in 1 .. Len(centers) :
        \A y \in 0 .. cfg.height - 1 :
            \A x \in 0 .. cfg.width - 1 :
                Offset(obj, frame, centers[k], x - (x % BlockStep(obj)), y - (y % BlockStep(obj)))
                    = <<0, 0>>

\* C18: for 0.05 <= distortion_strength < 0.1 there is no distortion centre
\* and the pass still runs; then, and whenever no sampled block gets an
\* offset from a centre, the frame it returns is a new buffer equal, pixel by
\* pixel, to the composite it was given.
EmptyCentreIdentity ==
    pc = "write" =>
        LET strength == cfg.entropy * cfg.resonance * 3
        IN  /\ (5000 <= strength /\ strength < 10000) =>
                  /\ centers = <<>>
                  /\ canvasObj = "result"
            /\ (5000 <= strength /\ NoOffsets) => canvas = composite

EmptyCentreIdentityWitness ==
    /\ pc = "write"
    /\ cfg.entropy * cfg.resonance * 3 >= 5000
    /\ cfg.entropy * cfg.resonance * 3 < 10000
    /\ centers = <<>>
    /\ canvasObj = "result"
    /\ Varied(composite)
    /\ canvas = composite

====
